---------------------------- MODULE Spec2Model ----------------------------
(* A model of src/main.rs: the screencap header parser, the crop /        *)
(* channel-reduction step, and the poll / dedup / dispatch loop of main.  *)
EXTENDS Integers, Sequences, FiniteSets

(***************************************************************************)
(* Bounds of the model.                                                    *)
(***************************************************************************)
\* largest width and height of a captured image
MaxDim == 2
\* number of loop iterations explored in interval mode
MaxIter == 5
\* longest time one capture-extract-decode chain takes
MaxChain == 3
\* latest reading of the clock at the start of an iteration
MaxStart == 0

(***************************************************************************)
(* Sequence helpers that mirror the iterator adapters used by the code.    *)
(***************************************************************************)
Min(a, b) == IF a < b THEN a ELSE b

\* Iterator::skip(n)
Skip(s, n) == SubSeq(s, n + 1, Len(s))

\* Iterator::take(n)
Take(s, n) == SubSeq(s, 1, Min(n, Len(s)))

\* slice::chunks_exact(n), n > 0: the full chunks only, the remainder dropped
ChunksExact(s, n) ==
    [r \in 1..(Len(s) \div n) |-> SubSeq(s, (r - 1) * n + 1, r * n)]

\* slice::chunks(n), n > 0: the last chunk may be shorter
Chunks(s, n) ==
    [r \in 1..((Len(s) + n - 1) \div n) |->
        SubSeq(s, (r - 1) * n + 1, Min(r * n, Len(s)))]

\* Iterator::flat_map(..).collect(): the rows' items in order
RECURSIVE Flatten(_)
Flatten(ss) ==
    IF Len(ss) = 0 THEN << >> ELSE Head(ss) \o Flatten(Tail(ss))

(***************************************************************************)
(* u32 values.  A u32 is written <<hi, lo>>, its two 16-bit halves, so     *)
(* that products are exact modulo 2^32: Mul returns the wrapped product    *)
(* and whether the true product exceeds the type.                          *)
(***************************************************************************)
Half == 65536

\* the u32 whose value is the natural number n
ToU32(n) == <<n \div Half, n % Half>>

Double(v) ==
    LET lo == v[2] * 2
        hi == v[1] * 2 + lo \div Half
    IN  [ovf |-> hi >= Half, val |-> <<hi % Half, lo % Half>>]

Add(a, b) ==
    LET lo == a[2] + b[2]
        hi == a[1] + b[1] + lo \div Half
    IN  [ovf |-> hi >= Half, val |-> <<hi % Half, lo % Half>>]

\* a * b on u32, by the bits of b
RECURSIVE Mul(_, _)
Mul(a, b) ==
    IF b = <<0, 0>> THEN [ovf |-> FALSE, val |-> <<0, 0>>]
    ELSE LET r == Mul(a, <<b[1] \div 2, (b[2] + (b[1] % 2) * Half) \div 2>>)
             d == Double(r.val)
             s == IF b[2] % 2 = 1 THEN Add(d.val, a) ELSE d
         IN  [ovf |-> r.ovf \/ d.ovf \/ s.ovf, val |-> s.val]

\* `as usize`, where a value of 2^16 or more is read as 2^16: every slice of
\* the model is shorter than that, so skip, take, chunks_exact and the
\* comparison with a length cannot tell the difference
as_usize(v) == IF v[1] > 0 THEN Half ELSE v[2]

(***************************************************************************)
(* PixelFormat                                                             *)
(***************************************************************************)
A8 == 8

RGBA4444 == 7

RGBA8888 == 1

RGB565 == 4

PixelFormat == {A8, RGBA4444, RGBA8888, RGB565}

NoFormat == 0 - 1

\* a lookup with a default arm
from_u32_default(code) ==
    IF code[1] = 0 /\ code[2] \in PixelFormat THEN code[2] ELSE A8

\* num_derive::FromPrimitive: Some(variant) exactly for a declared discriminant
from_u32(code) ==
    IF code[1] = 0 /\ code[2] \in PixelFormat THEN code[2] ELSE NoFormat

bytes_per_pixel(format) ==
    CASE format = A8 -> 1
      [] format = RGBA4444 -> 2
      [] format = RGBA8888 -> 4
      [] format = RGB565 -> 2

get_channel(format, byte) ==
    CASE format = A8 -> byte
      [] format = RGBA4444 -> byte % 16
      [] format = RGBA8888 -> byte
      [] format = RGB565 -> byte % 32

(***************************************************************************)
(* capture_screen_and_parse, given the bytes capture_screen returned        *)
(***************************************************************************)
\* u32::from_le_bytes
from_le_bytes(b) == <<b[3] + 256 * b[4], b[1] + 256 * b[2]>>

ImageNew(width, height, format, pixels) ==
    [kind |-> "Ok", width |-> width, height |-> height,
     format |-> format, pixels |-> pixels]

capture_screen_and_parse(data) ==
    IF Len(data) < 12 THEN [kind |-> "Err", why |-> "Invalid screencap data"]
    ELSE LET width == from_le_bytes(SubSeq(data, 1, 4))
             height == from_le_bytes(SubSeq(data, 5, 8))
             code == from_le_bytes(SubSeq(data, 9, 12))
             pixel_format == from_u32(code)
         IN  IF pixel_format = NoFormat
             THEN [kind |-> "Err", why |-> "Invalid PixelFormat"]
             ELSE ImageNew(width, height, pixel_format, Skip(data, 12))

(***************************************************************************)
(* Image::crop_and_create_binary_bitmap.  x, y, width and height are u32.  *)
(* overflow_checks is the build's setting: with it a u32 multiplication    *)
(* that overflows panics, without it the product wraps.                    *)
(***************************************************************************)
Panic(why) == [kind |-> "Panic", why |-> why]

\* an assertion that is compiled out
assert_eq_off(left, right) == TRUE

\* assert_eq!(left, right): whether the assertion passes
assert_eq(left, right) == left = right

crop_and_create_binary_bitmap(image, x, y, width, height, overflow_checks) ==
    LET bytes_per_pixel_ == ToU32(bytes_per_pixel(image.format))
        \* scale_dim = |dim| (dim * bytes_per_pixel) as usize
        scale_dim(dim) == Mul(dim, bytes_per_pixel_)
        scaled_image_width == scale_dim(image.width)
        scaled_x == scale_dim(x)
        scaled_width == scale_dim(width)
        area == Mul(width, height)
        scaled_area == scale_dim(area.val)
    IN  IF overflow_checks /\ (scaled_image_width.ovf \/ scaled_x.ovf \/ scaled_width.ovf)
        THEN Panic("attempt to multiply with overflow")
        ELSE IF as_usize(scaled_image_width.val) = 0
        THEN Panic("chunk size must be non-zero")
        ELSE LET rows == Take(Skip(ChunksExact(image.pixels,
                                       as_usize(scaled_image_width.val)),
                                   as_usize(y)), as_usize(height))
                 cropped == Flatten([r \in DOMAIN rows |->
                                Take(Skip(rows[r], as_usize(scaled_x.val)),
                                     as_usize(scaled_width.val))])
             IN  IF overflow_checks /\ (area.ovf \/ scaled_area.ovf)
                 THEN Panic("attempt to multiply with overflow")
                 ELSE IF ~assert_eq(as_usize(scaled_area.val), Len(cropped))
                 THEN Panic("assertion failed: cropped.len()")
                 ELSE LET groups == Chunks(cropped, bytes_per_pixel(image.format))
                          luma_vec == [k \in DOMAIN groups |->
                                          get_channel(image.format, groups[k][1])]
                      IN  IF ~assert_eq(as_usize(area.val), Len(luma_vec))
                          THEN Panic("assertion failed: luma_vec.len()")
                          ELSE [kind |-> "Ok", luma |-> luma_vec,
                                width |-> width, height |-> height]

(***************************************************************************)
(* send_to_kv_store: the redaction fold and the spawned task               *)
(***************************************************************************)
\* str::replace(pat, ""): the matches found left to right, none overlapping
RECURSIVE replace(_, _)
replace(text, pat) ==
    IF Len(pat) = 0 \/ Len(text) < Len(pat) THEN text
    ELSE IF SubSeq(text, 1, Len(pat)) = pat
         THEN replace(Skip(text, Len(pat)), pat)
         ELSE <<Head(text)>> \o replace(Tail(text), pat)

\* substitute.iter().fold(text, |text, substitute| text.replace(substitute, ""))
RECURSIVE fold_replace(_, _)
fold_replace(text, substitute) ==
    IF Len(substitute) = 0 THEN text
    ELSE fold_replace(replace(text, Head(substitute)), Tail(substitute))

\* the task tokio::spawn starts: it owns the redacted text only; iter records
\* the call of parse_qr_code that spawned it
send_to_kv_store(text, substitute, n) ==
    [payload |-> fold_replace(text, substitute), state |-> "running", iter |-> n]

(***************************************************************************)
(* Inputs                                                                  *)
(***************************************************************************)
NoInterval == 0 - 1

\* the texts the decoder can find on the screen
DecodableTexts == {<<"a", "b">>, <<"a", "a", "b">>}

\* what reader.immutable_decode returns
DecodeResults ==
    {[ok |-> FALSE, text |-> << >>]} \cup {[ok |-> TRUE, text |-> t] : t \in DecodableTexts}

NoResult == [ok |-> FALSE, text |-> << >>]

to_le_bytes(n) ==
    <<n % 256, (n \div 256) % 256, (n \div 65536) % 256, (n \div 16777216) % 256>>

\* a payload of n bytes whose values differ from place to place
Payload(n, seed) == [i \in 1..n |-> (seed + 37 * i) % 256]

\* the 12-byte header screencap prints
Header(width, height, code) ==
    to_le_bytes(width) \o to_le_bytes(height) \o to_le_bytes(code)

\* what screencap can print while the loop runs: a 2x2 A8 screen, a 1x1
\* RGBA8888 screen, a truncated header, an unknown format
LoopCaptures ==
    { Header(2, 2, A8) \o Payload(4, 200),
      Header(1, 1, RGBA8888) \o Payload(4, 200),
      Take(Header(2, 2, A8), 11),
      Header(2, 2, 2) \o Payload(4, 200) }

NoImage == [kind |-> "None"]

NoTiming ==
    [iteration_start |-> 0, next_iteration |-> 0, iteration_end |-> 0,
     sleep_duration |-> 0, slow_by_duration |-> 0]

VARIABLES
    overflow_checks,  \* the build profile
    args,             \* Args: x, y, width, height, interval, substitute
    pc,               \* where main is
    status,           \* "running", or how the process ended: "ok", "panic",
                      \* or the error main returned
    iter,             \* calls of parse_qr_code so far
    last_result,      \* main's last_result
    result,           \* parse_qr_code's decode result
    decoded,          \* the decode results so far, one per completed chain
    tasks,            \* the tasks spawned so far, in spawn order
    timing,           \* the loop body's locals
    data,             \* capture_screen's stdout
    image,            \* what capture_screen_and_parse returned
    bitmap            \* what crop_and_create_binary_bitmap returned

vars ==
    <<overflow_checks, args, pc, status, iter, last_result, result, decoded,
      tasks, timing, data, image, bitmap>>

image_vars == <<data, image, bitmap>>

(***************************************************************************)
(* main and parse_qr_code.  The tasks run on the runtime's other threads,   *)
(* so a task may finish between any two lines of parse_qr_code: the call is *)
(* taken in the three steps Decode, Compare and Assign.                    *)
(***************************************************************************)
\* the command lines explored: the crop region, --interval (absent, or a
\* duration) and the --substitute list
LoopArgs ==
    { [x |-> ToU32(0), y |-> ToU32(0), width |-> ToU32(2), height |-> ToU32(2),
       interval |-> NoInterval, substitute |-> << <<"a">> >>],
      [x |-> ToU32(0), y |-> ToU32(0), width |-> ToU32(2), height |-> ToU32(2),
       interval |-> 0, substitute |-> << >>],
      [x |-> ToU32(0), y |-> ToU32(0), width |-> ToU32(2), height |-> ToU32(2),
       interval |-> 2, substitute |-> << <<"a", "b">>, <<"a">> >>] }

Init ==
    /\ args \in LoopArgs
    /\ overflow_checks = (args.interval # 0)
    /\ pc = IF args.interval = NoInterval THEN "parse" ELSE "loop_top"
    /\ status = "running"
    /\ iter = 0
    /\ last_result = << >>
    /\ result = NoResult
    /\ decoded = << >>
    /\ tasks = << >>
    /\ timing = NoTiming
    /\ data = << >>
    /\ image = NoImage
    /\ bitmap = NoImage

\* Instant::duration_since with its arguments exchanged
duration_since_swapped(later, earlier) ==
    IF earlier > later THEN earlier - later ELSE 0

\* Instant::duration_since: zero when `earlier` is the later one
duration_since(later, earlier) ==
    IF later > earlier THEN later - earlier ELSE 0

\* the runtime is dropped when main returns or unwinds: a task that has not
\* finished is dropped with it
drop_runtime(ts) ==
    [i \in DOMAIN ts |->
        IF ts[i].state = "running" THEN [ts[i] EXCEPT !.state = "cancelled"]
        ELSE ts[i]]

\* main returns, or unwinds from a panic
Exit(how) ==
    /\ pc' = "exit"
    /\ status' = how
    /\ tasks' = drop_runtime(tasks)
    /\ result' = NoResult
    /\ timing' = NoTiming

\* where parse_qr_code returns to: line 252 in the loop, line 275 otherwise
ReturnTo == IF args.interval = NoInterval THEN "await" ELSE "loop_end"

\* lines 249-250
LoopTop ==
    /\ pc = "loop_top"
    /\ iter < MaxIter
    /\ \E now \in 0..MaxStart :
         timing' = [NoTiming EXCEPT !.iteration_start = now,
                                    !.next_iteration = now + args.interval]
    /\ pc' = "parse"
    /\ UNCHANGED <<overflow_checks, args, status, iter, last_result, result,
                   decoded, tasks, image_vars>>

\* line 217, capture_screen returns Err: the command cannot run or fails
CaptureFails ==
    /\ pc = "parse"
    /\ iter' = iter + 1
    /\ Exit("screencap command failed")
    /\ UNCHANGED <<overflow_checks, args, last_result, decoded, image_vars>>

\* line 217, capture_screen_and_parse returns Err
ParseFails ==
    /\ pc = "parse"
    /\ iter' = iter + 1
    /\ \E d \in LoopCaptures :
         /\ capture_screen_and_parse(d).kind = "Err"
         /\ Exit(capture_screen_and_parse(d).why)
    /\ UNCHANGED <<overflow_checks, args, last_result, decoded, image_vars>>

\* lines 217-221, crop_and_create_binary_bitmap panics
CropPanics ==
    /\ pc = "parse"
    /\ iter' = iter + 1
    /\ \E d \in LoopCaptures :
         /\ capture_screen_and_parse(d).kind = "Ok"
         /\ crop_and_create_binary_bitmap(capture_screen_and_parse(d), args.x, args.y,
                args.width, args.height, overflow_checks).kind = "Panic"
         /\ Exit("panic")
    /\ UNCHANGED <<overflow_checks, args, last_result, decoded, image_vars>>

\* lines 217-222: the chain up to the decoder's answer
Decode ==
    /\ pc = "parse"
    /\ \E d \in LoopCaptures :
         /\ capture_screen_and_parse(d).kind = "Ok"
         /\ crop_and_create_binary_bitmap(capture_screen_and_parse(d), args.x, args.y,
                args.width, args.height, overflow_checks).kind = "Ok"
    /\ iter' = iter + 1
    /\ \E r \in DecodeResults :
         /\ result' = r
         /\ decoded' = Append(decoded, r)
    /\ pc' = "compare"
    /\ UNCHANGED <<overflow_checks, args, status, last_result, tasks, timing,
                   image_vars>>

\* a comparison that dispatches every decoded text
CompareAlways ==
    /\ pc = "compare"
    /\ IF result.ok
       THEN /\ tasks' = Append(tasks, send_to_kv_store(result.text, args.substitute, iter))
            /\ pc' = "assign"
            /\ UNCHANGED result
       ELSE /\ pc' = ReturnTo
            /\ result' = NoResult
            /\ UNCHANGED tasks
    /\ UNCHANGED <<overflow_checks, args, status, iter, last_result, decoded,
                   timing, image_vars>>

\* lines 223-227 and 232-233
Compare ==
    /\ pc = "compare"
    /\ IF result.ok /\ result.text # last_result
       THEN /\ tasks' = Append(tasks, send_to_kv_store(result.text, args.substitute, iter))
            /\ pc' = "assign"
            /\ UNCHANGED result
       ELSE /\ pc' = ReturnTo
            /\ result' = NoResult
            /\ UNCHANGED tasks
    /\ UNCHANGED <<overflow_checks, args, status, iter, last_result, decoded,
                   timing, image_vars>>

\* an assignment that is skipped
AssignSkipped ==
    /\ pc = "assign"
    /\ result' = NoResult
    /\ pc' = ReturnTo
    /\ UNCHANGED <<overflow_checks, args, status, iter, last_result, decoded,
                   tasks, timing, image_vars>>

\* an assignment of the text as it was sent
AssignRedacted ==
    /\ pc = "assign"
    /\ last_result' = fold_replace(result.text, args.substitute)
    /\ result' = NoResult
    /\ pc' = ReturnTo
    /\ UNCHANGED <<overflow_checks, args, status, iter, decoded, tasks, timing,
                   image_vars>>

\* lines 228-230
Assign ==
    /\ pc = "assign"
    /\ last_result' = result.text
    /\ result' = NoResult
    /\ pc' = ReturnTo
    /\ UNCHANGED <<overflow_checks, args, status, iter, decoded, tasks, timing,
                   image_vars>>

\* lines 252-270
LoopEnd ==
    /\ pc = "loop_end"
    /\ \E d \in 0..MaxChain :
         LET iteration_end == timing.iteration_start + d
             sleep_duration == duration_since(timing.next_iteration, iteration_end)
         IN  IF sleep_duration = 0
             THEN /\ timing' = [timing EXCEPT
                        !.iteration_end = iteration_end,
                        !.slow_by_duration =
                            duration_since(iteration_end, timing.next_iteration)]
                  /\ pc' = "warned"
             ELSE /\ timing' = [timing EXCEPT
                        !.iteration_end = iteration_end,
                        !.sleep_duration = sleep_duration]
                  /\ pc' = "sleeping"
    /\ UNCHANGED <<overflow_checks, args, status, iter, last_result, result,
                   decoded, tasks, image_vars>>

\* line 271: the loop body ends, after the warning or when the sleep is over
EndOfBody ==
    /\ pc \in {"warned", "sleeping"}
    /\ pc' = "loop_top"
    /\ timing' = NoTiming
    /\ UNCHANGED <<overflow_checks, args, status, iter, last_result, result,
                   decoded, tasks, image_vars>>

\* main exiting without waiting for the task
AwaitNoWait ==
    /\ pc = "await"
    /\ Exit("ok")
    /\ UNCHANGED <<overflow_checks, args, iter, last_result, decoded, image_vars>>

\* lines 275-280
Await ==
    /\ pc = "await"
    /\ tasks # << >> => tasks[Len(tasks)].state # "running"
    /\ Exit("ok")
    /\ UNCHANGED <<overflow_checks, args, iter, last_result, decoded, image_vars>>

\* a send failure that stops the process
TaskFailsFatal(i) ==
    /\ status = "running"
    /\ tasks[i].state = "running"
    /\ tasks' = drop_runtime([tasks EXCEPT ![i].state = "failed"])
    /\ pc' = "exit"
    /\ status' = "err"
    /\ UNCHANGED <<overflow_checks, args, iter, last_result, result, decoded,
                   timing, image_vars>>

\* lines 184-198, the send returns Err: logged
TaskFails(i) ==
    /\ status = "running"
    /\ tasks[i].state = "running"
    /\ tasks' = [tasks EXCEPT ![i].state = "failed"]
    /\ UNCHANGED <<overflow_checks, args, pc, status, iter, last_result, result,
                   decoded, timing, image_vars>>

\* lines 184-198, the send returns Ok
TaskSends(i) ==
    /\ status = "running"
    /\ tasks[i].state = "running"
    /\ tasks' = [tasks EXCEPT ![i].state = "sent"]
    /\ UNCHANGED <<overflow_checks, args, pc, status, iter, last_result, result,
                   decoded, timing, image_vars>>

Poller ==
    \/ LoopTop
    \/ CaptureFails
    \/ ParseFails
    \/ CropPanics
    \/ Decode
    \/ Compare
    \/ Assign
    \/ LoopEnd
    \/ EndOfBody
    \/ Await

Dispatch ==
    \E i \in DOMAIN tasks : TaskSends(i) \/ TaskFails(i)

Next == Poller \/ Dispatch

Spec == Init /\ [][Next]_vars

(***************************************************************************)
(* The parser and the extractor on their own: one capture is parsed, then  *)
(* cropped with a region drawn from CropRegions.                           *)
(***************************************************************************)
\* 2^30: four bytes per pixel take it past u32
Big == 1024 * 1024 * 1024

\* the header's format field: the four formats, and codes that are none
Codes == PixelFormat \cup {0, 2, 264, 134217728}

\* widths of a captured image
Widths == 0..MaxDim \cup {Big}

\* the payload lengths tried for a header: the exact length and one byte to
\* either side, or next to nothing when the exact length is out of reach
PayloadLens(width, height, code) ==
    IF code \in PixelFormat /\ width <= MaxDim
    THEN LET exact == width * height * bytes_per_pixel(code)
         IN  {exact - 1, exact, exact + 1} \cap Nat
    ELSE {0, 1}

\* what screencap can print: a header and a payload, or a cut header
Captures ==
    { Header(w, h, c) \o Payload(n, 200) :
        <<w, h, c, n>> \in
            { q \in Widths \X (0..MaxDim) \X Codes \X (0..(4 * MaxDim * MaxDim + 1)) :
                q[4] \in PayloadLens(q[1], q[2], q[3]) } }
    \cup { Take(Header(1, 1, A8), n) : n \in {0, 4, 11} }

\* the crop regions tried
CropRegions ==
    [x : {ToU32(n) : n \in 0..(MaxDim + 1) \cup {Big}},
     y : {ToU32(n) : n \in 0..(MaxDim + 1)},
     width : {ToU32(n) : n \in 0..(MaxDim + 1) \cup {Half}},
     height : {ToU32(n) : n \in 0..(MaxDim + 1) \cup {Half}}]

InitImage ==
    /\ overflow_checks \in BOOLEAN
    /\ data \in Captures
    /\ image = NoImage
    /\ bitmap = NoImage
    /\ args = [x |-> ToU32(0), y |-> ToU32(0), width |-> ToU32(0),
               height |-> ToU32(0), interval |-> NoInterval, substitute |-> << >>]
    /\ pc = "parse"
    /\ status = "running"
    /\ iter = 0
    /\ last_result = << >>
    /\ result = NoResult
    /\ decoded = << >>
    /\ tasks = << >>
    /\ timing = NoTiming

\* capture_screen_and_parse on data
ParseImage ==
    /\ pc = "parse"
    /\ image' = capture_screen_and_parse(data)
    /\ pc' = IF image'.kind = "Ok" THEN "crop" ELSE "exit"
    /\ UNCHANGED <<overflow_checks, args, data, bitmap, status, iter,
                   last_result, result, decoded, tasks, timing>>

\* image.crop_and_create_binary_bitmap(x, y, width, height)
CropImage ==
    /\ pc = "crop"
    /\ \E region \in CropRegions :
         /\ args' = [args EXCEPT !.x = region.x, !.y = region.y,
                                 !.width = region.width, !.height = region.height]
         /\ bitmap' = crop_and_create_binary_bitmap(image, region.x, region.y,
                          region.width, region.height, overflow_checks)
    /\ pc' = "decode"
    /\ UNCHANGED <<overflow_checks, data, image, status, iter, last_result,
                   result, decoded, tasks, timing>>

NextImage == ParseImage \/ CropImage

SpecImage == InitImage /\ [][NextImage]_vars

(***************************************************************************)
(* Properties of the parser and the extractor, checked under SpecImage     *)
(***************************************************************************)
\* the natural number a u32 of the model stands for (below 2^31)
ToNat(v) == v[1] * Half + v[2]

\* pixels.len() == width * height * bytes_per_pixel
WellFormed(img) ==
    IF ToNat(img.width) = 0 \/ ToNat(img.height) = 0
    THEN Len(img.pixels) = 0
    ELSE /\ ToNat(img.width) <= Len(img.pixels)
         /\ Len(img.pixels) =
                ToNat(img.width) * ToNat(img.height) * bytes_per_pixel(img.format)

\* x + width <= image.width and y + height <= image.height
Inside(region, img) ==
    /\ ToNat(region.x) + ToNat(region.width) <= ToNat(img.width)
    /\ ToNat(region.y) + ToNat(region.height) <= ToNat(img.height)

\* C4: parsing fails exactly when the capture has fewer than 12 bytes or the
\* little-endian format code in bytes [8,12) is none of 0x1, 0x4, 0x7, 0x8;
\* otherwise it succeeds, whatever the payload length, with the header's
\* width, height and format and the rest of the bytes as pixels.
ParseFailsExactly ==
    pc # "parse" =>
        LET unparseable ==
                \/ Len(data) < 12
                \/ ~(data[9] \in {1, 4, 7, 8} /\ data[10] = 0 /\ data[11] = 0 /\ data[12] = 0)
        IN  /\ image.kind = "Err" <=> unparseable
            /\ image.kind = "Ok" <=> ~unparseable
            /\ image.kind = "Ok" =>
                 /\ image.format = data[9]
                 /\ image.width[2] = data[1] + 256 * data[2]
                 /\ image.width[1] = data[3] + 256 * data[4]
                 /\ image.height[2] = data[5] + 256 * data[6]
                 /\ image.height[1] = data[7] + 256 * data[8]
                 /\ Len(image.pixels) = Len(data) - 12
                 /\ \A i \in DOMAIN image.pixels : image.pixels[i] = data[12 + i]

\* C4 witness: code 0x108, whose low byte is A8's, is refused, not defaulted
UnknownCodeRefused ==
    /\ pc # "parse"
    /\ Len(data) >= 12
    /\ data[9] = 8
    /\ data[10] = 1
    /\ image.kind = "Err"

\* C3: for a well-formed image and a crop region inside it the extraction
\* passes both assertions, the buffer has width * height bytes, and the byte
\* of crop row i, column j is get_channel of the first byte of the source
\* pixel at image row y + i, column x + j.
CropInsideSucceeds ==
    (pc = "decode" /\ WellFormed(image) /\ Inside(args, image)) =>
        /\ bitmap.kind = "Ok"
        /\ Len(bitmap.luma) = ToNat(args.width) * ToNat(args.height)
        /\ \A i \in 0..(ToNat(args.height) - 1) :
             \A j \in 0..(ToNat(args.width) - 1) :
                bitmap.luma[i * ToNat(args.width) + j + 1] =
                    get_channel(image.format,
                        image.pixels[((ToNat(args.y) + i) * ToNat(image.width)
                                        + ToNat(args.x) + j)
                                     * bytes_per_pixel(image.format) + 1])

NoOverflow(region, img) ==
    LET bpp == ToU32(bytes_per_pixel(img.format))
    IN  /\ ~Mul(img.width, bpp).ovf
        /\ ~Mul(region.x, bpp).ovf
        /\ ~Mul(region.width, bpp).ovf
        /\ ~Mul(region.width, region.height).ovf
        /\ ~Mul(Mul(region.width, region.height).val, bpp).ovf

A == <<"a", "b">>

B == <<"a", "a", "b">>

IntervalMode == args.interval # NoInterval

\* the raw text whose decoding spawned task i
RawOf(i) == decoded[tasks[i].iter].text

\* last_payload after the first k decode results, from the empty string
RECURSIVE PayloadAfter(_)
PayloadAfter(k) ==
    IF k = 0 THEN << >>
    ELSE IF decoded[k].ok /\ decoded[k].text # PayloadAfter(k - 1)
         THEN decoded[k].text
         ELSE PayloadAfter(k - 1)

\* the decode results whose comparison has been made
Compared == IF pc = "compare" THEN Len(decoded) - 1 ELSE Len(decoded)

\* C1: a dispatch is triggered on exactly the iterations whose decode
\* succeeded with a text different from last_payload at that moment, one task
\* each; failures and repeated texts trigger nothing and leave last_payload
\* as it was.
DispatchExactlyOnChange ==
    LET expected == {k \in 1..Compared :
                        decoded[k].ok /\ decoded[k].text # PayloadAfter(k - 1)}
    IN  /\ {tasks[i].iter : i \in DOMAIN tasks} = expected
        /\ Len(tasks) = Cardinality(expected)
        /\ last_result = PayloadAfter(IF pc = "assign" THEN Len(decoded) - 1
                                      ELSE Compared)

\* C1 witness: the texts A, A, B, B, A gave three dispatches, at 1, 3 and 5
ThreeOfFive ==
    /\ pc = "loop_end"
    /\ decoded = <<[ok |-> TRUE, text |-> A], [ok |-> TRUE, text |-> A],
                   [ok |-> TRUE, text |-> B], [ok |-> TRUE, text |-> B],
                   [ok |-> TRUE, text |-> A]>>
    /\ Len(tasks) = 3
    /\ tasks[1].iter = 1
    /\ tasks[2].iter = 3
    /\ tasks[3].iter = 5

\* C2 as claimed: no task for a text exists while last_payload still holds
\* the previous value.
UpdatedBeforeSpawn ==
    tasks # << >> => last_result = RawOf(Len(tasks))

\* C2 as amended: the task is spawned first and last_payload is assigned
\* next, in the same call of parse_qr_code: outside that one step
\* last_payload is the text of the newest task (the empty string when there is
\* none), and in it the newest task is the one for the text about to be
\* assigned.
UpdatedRightAfterSpawn ==
    /\ pc # "assign" =>
         last_result = IF tasks = << >> THEN << >> ELSE RawOf(Len(tasks))
    /\ pc = "assign" =>
         /\ tasks # << >>
         /\ tasks[Len(tasks)].iter = iter
         /\ RawOf(Len(tasks)) = result.text
         /\ last_result # result.text

\* C2 witness: the task has already finished and last_payload is not yet
\* assigned
SentBeforeUpdate ==
    /\ pc = "assign"
    /\ tasks # << >>
    /\ tasks[Len(tasks)].state = "sent"
    /\ last_result # RawOf(Len(tasks))

Elapsed == timing.iteration_end - timing.iteration_start

\* C5: in interval mode, with elapsed = end - start: when elapsed < interval
\* the loop sleeps interval - elapsed and reports no overrun; when elapsed >=
\* interval it does not sleep and reports an overrun of elapsed - interval.
SleepOrOverrun ==
    /\ pc \in {"sleeping", "warned"} =>
         (pc = "sleeping" <=> Elapsed < args.interval)
    /\ pc = "sleeping" =>
         /\ timing.sleep_duration = args.interval - Elapsed
         /\ timing.slow_by_duration = 0
    /\ pc = "warned" =>
         /\ timing.slow_by_duration = Elapsed - args.interval
         /\ timing.sleep_duration = 0

\* C5 witness: interval 2 and a chain of 3 (100ms and 150ms in units of 50ms):
\* an overrun of 1, no sleep
OverrunByOne ==
    /\ pc = "warned"
    /\ args.interval = 2
    /\ Elapsed = 3
    /\ timing.slow_by_duration = 1
    /\ timing.sleep_duration = 0

\* C6: in interval mode the loop's progress never depends on a task: from
\* the comparison to the start of the next capture every step of the loop is
\* enabled whatever the tasks' states, and a task's success or failure
\* leaves the loop where it is.
LoopIgnoresDispatch ==
    /\ [](IntervalMode =>
            /\ (pc = "loop_top" /\ iter < MaxIter) => ENABLED LoopTop
            /\ pc = "compare" => ENABLED Compare
            /\ pc = "assign" => ENABLED Assign
            /\ pc = "loop_end" => ENABLED LoopEnd
            /\ pc \in {"warned", "sleeping"} => ENABLED EndOfBody)
    /\ [][(\E i \in DOMAIN tasks :
              tasks[i].state = "running" /\ tasks'[i].state \in {"sent", "failed"})
          => (pc' = pc /\ status' = status /\ iter' = iter
              /\ last_result' = last_result /\ timing' = timing)]_vars

\* C6 witness: a capture is about to start while one task is in flight and
\* another has failed
CaptureWhileInFlight ==
    /\ IntervalMode
    /\ pc = "parse"
    /\ \E i \in DOMAIN tasks : tasks[i].state = "running"
    /\ \E i \in DOMAIN tasks : tasks[i].state = "failed"

\* C7: no spawned task is ever cancelled or abandoned by the process.
NoTaskAbandoned ==
    \A i \in DOMAIN tasks : tasks[i].state # "cancelled"

\* C8: in single-shot mode the chain runs exactly once; the process ends only
\* when the task it spawned, if any, has finished; and when a stage failed
\* it ends with that failure and no task.
SingleShotAwaits ==
    ~IntervalMode =>
        /\ iter <= 1
        /\ Len(tasks) <= 1
        /\ pc = "exit" =>
             /\ iter = 1
             /\ \A i \in DOMAIN tasks : tasks[i].state \in {"sent", "failed"}
             /\ status # "ok" => (tasks = << >> /\ decoded = << >>)
             /\ (status = "ok" /\ decoded # << >> /\ decoded[1].ok) => Len(tasks) = 1

\* C8 witness: single-shot, the process has ended after its task failed to
\* send
SingleShotDone ==
    /\ ~IntervalMode
    /\ pc = "exit"
    /\ status = "ok"
    /\ Len(tasks) = 1
    /\ tasks[1].state = "failed"

\* the starts of the matches str::replace removes from s: every place where
\* pat occurs that no earlier removed match reaches
MatchStarts(s, pat) ==
    CHOOSE M \in SUBSET (1..Len(s)) :
        \A i \in 1..Len(s) :
            i \in M <=>
                /\ i + Len(pat) - 1 <= Len(s)
                /\ \A k \in 1..Len(pat) : s[i + k - 1] = pat[k]
                /\ \A j \in M : j < i => j + Len(pat) <= i

\* s with those matches cut out
Without(s, pat) ==
    LET kept == {i \in 1..Len(s) :
                    \A j \in MatchStarts(s, pat) : ~(j <= i /\ i < j + Len(pat))}
    IN  [n \in 1..Cardinality(kept) |->
            s[CHOOSE i \in kept : Cardinality({j \in kept : j <= i}) = n]]

\* s after the first n removals of the list
RECURSIVE Redacted(_, _, _)
Redacted(s, subs, n) ==
    IF n = 0 THEN s ELSE Without(Redacted(s, subs, n - 1), subs[n])

\* C10: change detection works on the raw text: last_payload is the raw text
\* of the newest dispatch, two successive decodes with different raw texts
\* are both dispatched even when their redacted payloads are equal, and
\* every payload is the raw text with the substrings removed in the order
\* given.
DedupOnRawText ==
    /\ \A i \in DOMAIN tasks :
         tasks[i].payload = Redacted(RawOf(i), args.substitute, Len(args.substitute))
    /\ \A k \in 2..Compared :
         (decoded[k - 1].ok /\ decoded[k].ok /\ decoded[k].text # decoded[k - 1].text)
            => \E i \in DOMAIN tasks : tasks[i].iter = k
    /\ (pc # "assign" /\ tasks # << >>) => last_result = RawOf(Len(tasks))

\* C10 witness: two successive dispatches of different raw texts whose
\* payloads, after a removal that depends on the order, are the same
SamePayloadTwice ==
    /\ Len(args.substitute) = 2
    /\ Len(tasks) >= 2
    /\ tasks[2].iter = tasks[1].iter + 1
    /\ RawOf(1) # RawOf(2)
    /\ tasks[1].payload = tasks[2].payload
    /\ last_result = RawOf(2)

=============================================================================
